---- MODULE Spec2Model ----
(***************************************************************************)
(* Model of verify_rate_limit.py: the rate-limit verification harness.     *)
(* The harness (run_test called twice from __main__) is one sequential     *)
(* process; the three role processes, the disk and the wall clock are the  *)
(* environment.                                                            *)
(***************************************************************************)
EXTENDS Integers, Sequences, FiniteSets, TLC

\* ---------------------------------------------------------------- bounds
MaxTime  == 8     \* the wall clock runs over 0..MaxTime
MaxLines == 2     \* lines a client prints in one test case
MaxSize  == 101   \* file sizes drawn for the port-derivation specification

\* ------------------------------------------------------- program constants
NumCases       == 2
EpPortBase     == 44322
ClientPortBase == 44323
PortModulus    == 100
KB             == 1024
ExpectedSecs   == 5
MarginNum      == 4      \* expected_duration * 0.8 = expected_duration * 4 / 5
MarginDen      == 5

None    == 0 - 1               \* Python None for the numeric locals
Missing == <<"<missing>">>     \* the template key file does not exist

Cases == 1..NumCases
Roles == {"ep", "room", "wrapper"}

\* the arguments of the two run_test calls of __main__
MainSizes == <<50, 150>>
expected_duration(i) == ExpectedSecs
Limits == <<10, 30>>           \* limit_str, "10KB" and "30KB"

\* the sentinel and the lines a client may print, as word sequences
Sentinel == <<"UNN", "DOWNLOAD", "READY">>
Lines == { <<"x", "UNN", "DOWNLOAD", "READY">>, <<"UNN", "DOWNLOAD">> }

\* contents the template public key file may have ("nl" is a newline)
KeyTexts == { <<"k">>, <<"k", "nl">> }

VARIABLES
  pc,              \* position of the harness
  tc,              \* index of the run_test call in progress
  file_size_kb,    \* argument of each run_test call
  dirExists,       \* test_env_<size> exists on disk
  dirFiles,        \* files below test_env_<size>: path -> content
  templateKey,     \* content of tests/integration/test_user_key.pub
  pubkey,          \* local of run_test
  proc,            \* state of each role process of each test case
  killed,          \* kill() was issued to the process
  ep_port, client_port,   \* locals of run_test, 0 before line 29
  stdinOpen,       \* the wrapper still holds the read end of its stdin
  stdoutOpen,      \* the wrapper still holds the write end of its stdout
  outbuf,          \* lines printed by the wrapper and not yet read
  emitted,         \* number of lines the wrapper printed in this test case
  stdinBuf,        \* lines written to the wrapper's stdin
  line,            \* local of run_test: the last readline() result
  start_transfer, end_transfer, actual_duration,   \* locals of run_test
  speed_kb_s,      \* local of run_test: integer part of the printed speed
  firstSentinel,   \* clock value when the first sentinel line was read
  now,             \* wall clock, time.time()
  result,          \* what each run_test call ended with
  outcome,         \* the return path each run_test call took
  success,         \* local of __main__
  exitCode         \* exit status of the harness, None while running

vars == << pc, tc, file_size_kb, dirExists, dirFiles, templateKey, pubkey,
           proc, killed, ep_port, client_port, stdinOpen, stdoutOpen, outbuf,
           emitted, stdinBuf, line, start_transfer, end_transfer,
           actual_duration, speed_kb_s, firstSentinel, now, result, outcome, success,
           exitCode >>

fsVars    == << dirExists, dirFiles, templateKey, pubkey >>
procVars  == << proc, killed >>
portVars  == << ep_port, client_port >>
pipeVars  == << stdinOpen, stdoutOpen, outbuf, emitted, stdinBuf >>
scanVars  == << line, start_transfer, end_transfer, actual_duration, speed_kb_s,
                firstSentinel >>
mainVars  == << result, outcome, success, exitCode >>

\* ------------------------------------------------------------ pure helpers
size(i)      == file_size_kb[i]
test_dir(i)  == size(i)                 \* f"test_env_{file_size_kb}"

EpPort(s)     == EpPortBase + (s % PortModulus)
ClientPort_SamePort(s) == EpPortBase + (s % PortModulus)
ClientPort(s) == ClientPortBase + (s % PortModulus)

\* "UNN DOWNLOAD READY" in line
ContainsSentinel(l) ==
  \E k \in 0..(Len(l) - Len(Sentinel)) :
     \A j \in 1..Len(Sentinel) : l[k + j] = Sentinel[j]

\* str.strip() on the key text
RECURSIVE LStrip(_)
LStrip(s) == IF s # <<>> /\ Head(s) = "nl" THEN LStrip(Tail(s)) ELSE s
RECURSIVE RStrip(_)
RStrip(s) == IF s # <<>> /\ s[Len(s)] = "nl"
             THEN RStrip(SubSeq(s, 1, Len(s) - 1)) ELSE s
Strip(s) == RStrip(LStrip(s))

\* actual_duration >= expected_duration * 0.8
MeetsMargin(d, e) == MarginDen * d >= MarginNum * e

EmptyTree == [p \in {} |-> <<>>]
FreshTree == [p \in {"room_files", "users"} |-> <<"dir">>]
\* what an earlier run that ended in failure left under the same name
StaleTree ==
  [p \in {"room_files", "users", "room_files/test_<size>.bin",
          "room_files/stale.bin", "users/maurits", "users/myroom",
          "host_key"} |->
     IF p \in {"room_files", "users"} THEN <<"dir">>
     ELSE IF p = "room_files/test_<size>.bin" THEN <<"bytes", 1>>
     ELSE <<"old">>]

AddFile(tree, path, content) ==
  [p \in (DOMAIN tree) \cup {path} |-> IF p = path THEN content ELSE tree[p]]

PayloadPath(i) == "room_files/test_<size>.bin"
Payload(i)     == <<"bytes", size(i) * KB>>       \* os.urandom(size * 1024)

\* ------------------------------------------------------------------- Init
InitLocals ==
  /\ pubkey = <<>>
  /\ proc = [i \in Cases |-> [r \in Roles |-> "none"]]
  /\ killed = [i \in Cases |-> [r \in Roles |-> FALSE]]
  /\ ep_port = [i \in Cases |-> 0]
  /\ client_port = [i \in Cases |-> 0]
  /\ stdinOpen = FALSE /\ stdoutOpen = FALSE
  /\ outbuf = <<>> /\ emitted = 0 /\ stdinBuf = <<>>
  /\ line = <<>>
  /\ start_transfer = None /\ end_transfer = None /\ actual_duration = None
  /\ speed_kb_s = None
  /\ firstSentinel = None
  /\ now = 0
  /\ result = [i \in Cases |-> "none"]
  /\ outcome = [i \in Cases |-> "none"]
  /\ success = TRUE
  /\ exitCode = None

Init ==
  /\ pc = "setup_dirs" /\ tc = 1
  /\ file_size_kb = MainSizes
  /\ dirExists \in [{MainSizes[i] : i \in Cases} -> BOOLEAN]
  /\ dirFiles = [d \in DOMAIN dirExists |->
                   IF dirExists[d] THEN StaleTree ELSE EmptyTree]
  /\ templateKey \in KeyTexts \cup {Missing}
  /\ InitLocals

\* ------------------------------------------------------------ environment
\* the wall clock advances (also while the harness sleeps or blocks)
Tick ==
  /\ pc \notin {"done", "crashed"}
  /\ now < MaxTime
  /\ now' = now + 1
  /\ UNCHANGED << pc, tc, file_size_kb, fsVars, procVars, portVars, pipeVars,
                  scanVars, mainVars >>

\* the client prints a line on its stdout
WrapperEmit ==
  /\ proc[tc]["wrapper"] = "running" /\ stdoutOpen
  /\ emitted < MaxLines
  /\ \E l \in Lines : outbuf' = Append(outbuf, l)
  /\ emitted' = emitted + 1
  /\ UNCHANGED << pc, tc, file_size_kb, fsVars, procVars, portVars, stdinOpen,
                  stdoutOpen, stdinBuf, scanVars, now, mainVars >>

\* the client closes its stdin while it keeps running
WrapperCloseStdin ==
  /\ proc[tc]["wrapper"] = "running" /\ stdinOpen
  /\ stdinOpen' = FALSE
  /\ UNCHANGED << pc, tc, file_size_kb, fsVars, procVars, portVars,
                  stdoutOpen, outbuf, emitted, stdinBuf, scanVars, now,
                  mainVars >>

\* the client closes its stdout while it keeps running
WrapperCloseStdout ==
  /\ proc[tc]["wrapper"] = "running" /\ stdoutOpen
  /\ stdoutOpen' = FALSE
  /\ UNCHANGED << pc, tc, file_size_kb, fsVars, procVars, portVars,
                  stdinOpen, outbuf, emitted, stdinBuf, scanVars, now,
                  mainVars >>

\* a role process ends: the client at any time, the entrypoint and the room
\* (long-running services) once the kill signal sent to them is delivered
ProcExit(i, r) ==
  /\ proc[i][r] = "running"
  /\ r # "wrapper" => killed[i][r]
  /\ proc' = [proc EXCEPT ![i][r] = "exited"]
  /\ IF r = "wrapper" /\ i = tc
       THEN stdinOpen' = FALSE /\ stdoutOpen' = FALSE
       ELSE UNCHANGED << stdinOpen, stdoutOpen >>
  /\ UNCHANGED << pc, tc, file_size_kb, fsVars, killed, portVars, outbuf,
                  emitted, stdinBuf, scanVars, now, mainVars >>

\* ------------------------------------------------------ run_test: fixture
\* the exception caught and turned into a failed test case
Raise_Caught(kind) ==
  /\ pc' = "main_ret"
  /\ result' = [result EXCEPT ![tc] = "fail"]
  /\ outcome' = [outcome EXCEPT ![tc] = kind]
  /\ UNCHANGED << success, exitCode >>

\* an exception leaves run_test and, unhandled, ends the interpreter
Raise(kind) ==
  /\ pc' = "crashed"
  /\ result' = [result EXCEPT ![tc] = "raised"]
  /\ outcome' = [outcome EXCEPT ![tc] = kind]
  /\ exitCode' = 1
  /\ UNCHANGED success

\* the stale tree kept: only makedirs(exist_ok=True)
SetupDirs_NoRmtree ==
  /\ pc = "setup_dirs"
  /\ line' = <<>> /\ start_transfer' = None /\ end_transfer' = None
  /\ actual_duration' = None /\ speed_kb_s' = None
  /\ firstSentinel' = None
  /\ pubkey' = <<>>
  /\ dirExists' = [dirExists EXCEPT ![test_dir(tc)] = TRUE]
  /\ dirFiles' = [dirFiles EXCEPT ![test_dir(tc)] =
                    AddFile(AddFile(@, "room_files", <<"dir">>),
                            "users", <<"dir">>)]
  /\ pc' = "write_payload"
  /\ UNCHANGED << tc, file_size_kb, templateKey, procVars, portVars, pipeVars,
                  now, mainVars >>

\* lines 13-17: remove a stale tree, make room_files/ and users/
SetupDirs ==
  /\ pc = "setup_dirs"
  /\ line' = <<>> /\ start_transfer' = None /\ end_transfer' = None
  /\ actual_duration' = None /\ speed_kb_s' = None
  /\ firstSentinel' = None
  /\ pubkey' = <<>>
  /\ \E ok \in BOOLEAN :
       IF ok
         THEN /\ dirExists' = [dirExists EXCEPT ![test_dir(tc)] = TRUE]
              /\ dirFiles' = [dirFiles EXCEPT ![test_dir(tc)] = FreshTree]
              /\ pc' = "write_payload"
              /\ UNCHANGED mainVars
         ELSE /\ dirExists' = [dirExists EXCEPT ![test_dir(tc)] = FALSE]
              /\ dirFiles' = [dirFiles EXCEPT ![test_dir(tc)] = EmptyTree]
              /\ Raise("fixture_error")
  /\ UNCHANGED << tc, file_size_kb, templateKey, procVars, portVars, pipeVars,
                  now >>

\* lines 19-20: the payload of file_size_kb * 1024 random bytes
WritePayload ==
  /\ pc = "write_payload"
  /\ \E ok \in BOOLEAN :
       IF ok
         THEN /\ dirFiles' = [dirFiles EXCEPT ![test_dir(tc)] =
                                AddFile(@, PayloadPath(tc), Payload(tc))]
              /\ pc' = "read_pubkey"
              /\ UNCHANGED mainVars
         ELSE /\ UNCHANGED dirFiles
              /\ Raise("fixture_error")
  /\ UNCHANGED << tc, file_size_kb, dirExists, templateKey, pubkey, procVars,
                  portVars, pipeVars, scanVars, now >>

\* lines 22-23: read and strip the template public key
ReadPubkey ==
  /\ pc = "read_pubkey"
  /\ IF templateKey = Missing
       THEN /\ UNCHANGED pubkey
            /\ Raise("fixture_error")
       ELSE /\ pubkey' = Strip(templateKey)
            /\ pc' = "write_users"
            /\ UNCHANGED mainVars
  /\ UNCHANGED << tc, file_size_kb, dirExists, dirFiles, templateKey,
                  procVars, portVars, pipeVars, scanVars, now >>

\* lines 24-27: install the key as users/maurits and users/myroom
WriteUsers ==
  /\ pc = "write_users"
  /\ \E ok \in BOOLEAN :
       IF ok
         THEN /\ dirFiles' = [dirFiles EXCEPT ![test_dir(tc)] =
                   AddFile(AddFile(@, "users/maurits", pubkey),
                           "users/myroom", pubkey)]
              /\ pc' = "start_ep"
              /\ UNCHANGED mainVars
         ELSE /\ dirFiles' = [dirFiles EXCEPT ![test_dir(tc)] =
                   AddFile(@, "users/maurits", pubkey)]
              /\ Raise("fixture_error")
  /\ UNCHANGED << tc, file_size_kb, dirExists, templateKey, pubkey, procVars,
                  portVars, pipeVars, scanVars, now >>

\* --------------------------------------------------- run_test: processes
\* lines 29-30
AssignPorts(i) ==
  /\ ep_port' = [ep_port EXCEPT ![i] = EpPort(size(i))]
  /\ client_port' = [client_port EXCEPT ![i] = ClientPort(size(i))]

\* the room started first, in the place of the entrypoint
StartEntrypoint_RoomFirst ==
  /\ pc = "start_ep"
  /\ AssignPorts(tc)
  /\ proc' = [proc EXCEPT ![tc]["room"] = "running"]
  /\ pc' = "start_room"
  /\ UNCHANGED << tc, file_size_kb, fsVars, killed, pipeVars, scanVars, now,
                  mainVars >>

\* lines 29-36: derive both ports, start the entrypoint, sleep
StartEntrypoint ==
  /\ pc = "start_ep"
  /\ AssignPorts(tc)
  /\ proc' = [proc EXCEPT ![tc]["ep"] = "running"]
  /\ pc' = "start_room"
  /\ UNCHANGED << tc, file_size_kb, fsVars, killed, pipeVars, scanVars, now,
                  mainVars >>

\* lines 39-43: start the room, sleep
StartRoom ==
  /\ pc = "start_room"
  /\ proc' = [proc EXCEPT ![tc]["room"] = "running"]
  /\ pc' = "start_client"
  /\ UNCHANGED << tc, file_size_kb, fsVars, killed, portVars, pipeVars,
                  scanVars, now, mainVars >>

\* lines 46-49: start the client with pipes on stdin and stdout, sleep
StartClient ==
  /\ pc = "start_client"
  /\ proc' = [proc EXCEPT ![tc]["wrapper"] = "running"]
  /\ stdinOpen' = TRUE /\ stdoutOpen' = TRUE
  /\ outbuf' = <<>> /\ emitted' = 0 /\ stdinBuf' = <<>>
  /\ pc' = "liveness"
  /\ UNCHANGED << tc, file_size_kb, fsVars, killed, portVars, scanVars, now,
                  mainVars >>

\* only the entrypoint is killed
KillOnlyEp == killed' = [killed EXCEPT ![tc]["ep"] = TRUE]

\* ep.kill(); client.kill()
KillBoth == killed' = [killed EXCEPT ![tc]["ep"] = TRUE, ![tc]["room"] = TRUE]

\* return from run_test: the value goes to __main__, the handles are dropped
Return(value, kind) ==
  /\ pc' = "main_ret"
  /\ result' = [result EXCEPT ![tc] = value]
  /\ outcome' = [outcome EXCEPT ![tc] = kind]
  /\ UNCHANGED << success, exitCode >>

\* lines 50-55: the client has already exited
LivenessCheck ==
  /\ pc = "liveness"
  /\ IF proc[tc]["wrapper"] = "exited"
       THEN /\ KillBoth
            /\ Return("fail", "early_exit")
       ELSE /\ pc' = "send_cmd"
            /\ UNCHANGED << killed, mainVars >>
  /\ UNCHANGED << tc, file_size_kb, fsVars, proc, portVars, pipeVars,
                  scanVars, now >>

\* the BrokenPipeError swallowed: the scan is entered all the same
SendCommand_IgnorePipe ==
  /\ pc = "send_cmd"
  /\ stdinBuf' = IF stdinOpen
                   THEN Append(stdinBuf, <<"/get", PayloadPath(tc)>>)
                   ELSE stdinBuf
  /\ pc' = "scan"
  /\ start_transfer' = None
  /\ UNCHANGED << tc, file_size_kb, fsVars, procVars, portVars, stdinOpen,
                  stdoutOpen, outbuf, emitted, line, end_transfer,
                  actual_duration, speed_kb_s, firstSentinel, now, mainVars >>

\* lines 57-66: write "/get test_<size>.bin\n" and flush
SendCommand ==
  /\ pc = "send_cmd"
  /\ IF stdinOpen
       THEN /\ stdinBuf' = Append(stdinBuf, <<"/get", PayloadPath(tc)>>)
            /\ pc' = "scan"
            /\ UNCHANGED << killed, mainVars >>
       ELSE /\ KillBoth
            /\ Return("fail", "broken_pipe")
            /\ UNCHANGED stdinBuf
  /\ start_transfer' = IF stdinOpen THEN None ELSE start_transfer
  /\ UNCHANGED << tc, file_size_kb, fsVars, proc, portVars, stdinOpen,
                  stdoutOpen, outbuf, emitted, line, end_transfer,
                  actual_duration, speed_kb_s, firstSentinel, now >>

\* ------------------------------------------------------- run_test: scan
\* both services killed as soon as the sentinel is seen
ScanLine_KillOnTrigger ==
  /\ pc = "scan"
  /\ outbuf # <<>>
  /\ line' = Head(outbuf)
  /\ outbuf' = Tail(outbuf)
  /\ IF ContainsSentinel(Head(outbuf))
       THEN /\ start_transfer' = now
            /\ firstSentinel' = IF firstSentinel = None THEN now
                                                        ELSE firstSentinel
            /\ KillBoth
       ELSE UNCHANGED << start_transfer, firstSentinel, killed >>
  /\ UNCHANGED << pc, tc, file_size_kb, fsVars, proc, portVars, stdinOpen,
                  stdoutOpen, emitted, stdinBuf, end_transfer,
                  actual_duration, speed_kb_s, now, mainVars >>

\* lines 72, 80-86: readline() returned a line
ScanLine ==
  /\ pc = "scan"
  /\ outbuf # <<>>
  /\ line' = Head(outbuf)
  /\ outbuf' = Tail(outbuf)
  /\ IF ContainsSentinel(Head(outbuf))
       THEN /\ start_transfer' = now
            /\ firstSentinel' = IF firstSentinel = None THEN now
                                                        ELSE firstSentinel
       ELSE UNCHANGED << start_transfer, firstSentinel >>
  /\ UNCHANGED << pc, tc, file_size_kb, fsVars, procVars, portVars, stdinOpen,
                  stdoutOpen, emitted, stdinBuf, end_transfer,
                  actual_duration, speed_kb_s, now, mainVars >>

\* lines 72-77: readline() returned "" (end of file) and poll() is None
ScanEmptyRunning ==
  /\ pc = "scan"
  /\ outbuf = <<>> /\ ~stdoutOpen
  /\ proc[tc]["wrapper"] # "exited"
  /\ line' = <<>>
  /\ UNCHANGED << pc, tc, file_size_kb, fsVars, procVars, portVars, pipeVars,
                  start_transfer, end_transfer, actual_duration, speed_kb_s,
                  firstSentinel, now, mainVars >>

\* the loop left on the first empty read, without poll() and wait()
ScanEnd_NoPoll ==
  /\ pc = "scan"
  /\ outbuf = <<>> /\ ~stdoutOpen
  /\ line' = <<>>
  /\ end_transfer' = now
  /\ pc' = "check_trigger"
  /\ UNCHANGED << tc, file_size_kb, fsVars, procVars, portVars, pipeVars,
                  start_transfer, actual_duration, speed_kb_s, firstSentinel,
                  now, mainVars >>

\* lines 72-76, 88-89: readline() returned "" and the client has exited
ScanEnd ==
  /\ pc = "scan"
  /\ outbuf = <<>> /\ ~stdoutOpen
  /\ proc[tc]["wrapper"] = "exited"
  /\ line' = <<>>
  /\ end_transfer' = now
  /\ pc' = "check_trigger"
  /\ UNCHANGED << tc, file_size_kb, fsVars, procVars, portVars, pipeVars,
                  start_transfer, actual_duration, speed_kb_s, firstSentinel, now,
                  mainVars >>

\* lines 91-95, with the sentinel check left out
CheckTrigger_NoCheck ==
  /\ pc = "check_trigger"
  /\ pc' = "validate"
  /\ start_transfer' = IF start_transfer = None THEN 0 ELSE start_transfer
  /\ UNCHANGED << tc, file_size_kb, fsVars, procVars, portVars, pipeVars,
                  line, end_transfer, actual_duration, speed_kb_s, firstSentinel, now,
                  mainVars >>

\* lines 91-95: no sentinel line was read
CheckTrigger ==
  /\ pc = "check_trigger"
  /\ IF start_transfer = None
       THEN /\ KillBoth
            /\ Return("fail", "no_trigger")
       ELSE /\ pc' = "validate"
            /\ UNCHANGED << killed, mainVars >>
  /\ UNCHANGED << tc, file_size_kb, fsVars, proc, portVars, pipeVars,
                  scanVars, now >>

\* the subtraction the wrong way round
Validate_Reversed ==
  /\ pc = "validate"
  /\ actual_duration' = start_transfer - end_transfer
  /\ IF start_transfer - end_transfer = 0
       THEN /\ Raise("zero_division")
            /\ UNCHANGED speed_kb_s
       ELSE /\ speed_kb_s' = size(tc) \div (start_transfer - end_transfer)
            /\ pc' = "cleanup" /\ UNCHANGED mainVars
  /\ UNCHANGED << tc, file_size_kb, fsVars, procVars, portVars, pipeVars,
                  line, start_transfer, end_transfer, firstSentinel, now >>

\* lines 97-101: elapsed time, and the speed printed for information
Validate ==
  /\ pc = "validate"
  /\ actual_duration' = end_transfer - start_transfer
  /\ IF end_transfer - start_transfer = 0
       THEN /\ Raise("zero_division")     \* file_size_kb / actual_duration
            /\ UNCHANGED speed_kb_s
       ELSE /\ speed_kb_s' = size(tc) \div (end_transfer - start_transfer)
            /\ pc' = "cleanup" /\ UNCHANGED mainVars
  /\ UNCHANGED << tc, file_size_kb, fsVars, procVars, portVars, pipeVars,
                  line, start_transfer, end_transfer, firstSentinel, now >>

\* lines 104-106: kill both services, remove the fixture tree
Cleanup ==
  /\ pc = "cleanup"
  /\ KillBoth
  /\ dirExists' = [dirExists EXCEPT ![test_dir(tc)] = FALSE]
  /\ dirFiles' = [dirFiles EXCEPT ![test_dir(tc)] = EmptyTree]
  /\ pc' = "verdict"
  /\ UNCHANGED << tc, file_size_kb, templateKey, pubkey, proc, portVars,
                  pipeVars, scanVars, now, mainVars >>

\* the verdict taken from the measured speed instead of the duration
Verdict_BySpeed ==
  /\ pc = "verdict"
  /\ IF speed_kb_s <= Limits[tc]
       THEN Return("pass", "pass")
       ELSE Return("fail", "rate_fail")
  /\ UNCHANGED << tc, file_size_kb, fsVars, procVars, portVars, pipeVars,
                  scanVars, now >>

\* lines 109-114: allow 20% margin
Verdict ==
  /\ pc = "verdict"
  /\ IF MeetsMargin(actual_duration, expected_duration(tc))
       THEN Return("pass", "pass")
       ELSE Return("fail", "rate_fail")
  /\ UNCHANGED << tc, file_size_kb, fsVars, procVars, portVars, pipeVars,
                  scanVars, now >>

\* --------------------------------------------------------------- __main__
\* a failed test case ends the run at once
MainReturn_AbortOnFail ==
  /\ pc = "main_ret"
  /\ success' = (success /\ result[tc] = "pass")
  /\ IF result[tc] # "pass"
       THEN pc' = "done" /\ exitCode' = 1 /\ UNCHANGED tc
       ELSE IF tc < NumCases
         THEN tc' = tc + 1 /\ pc' = "setup_dirs" /\ UNCHANGED exitCode
         ELSE tc' = tc /\ pc' = "finish" /\ UNCHANGED exitCode
  /\ stdinOpen' = FALSE /\ stdoutOpen' = FALSE /\ outbuf' = <<>>
  /\ UNCHANGED << file_size_kb, fsVars, procVars, portVars, emitted, stdinBuf,
                  scanVars, now, result, outcome >>

\* the flag follows the last test case only
MainReturn_LastWins ==
  /\ pc = "main_ret"
  /\ success' = (result[tc] = "pass")
  /\ IF tc < NumCases
       THEN tc' = tc + 1 /\ pc' = "setup_dirs"
       ELSE tc' = tc /\ pc' = "finish"
  /\ stdinOpen' = FALSE /\ stdoutOpen' = FALSE /\ outbuf' = <<>>
  /\ UNCHANGED << file_size_kb, fsVars, procVars, portVars, emitted, stdinBuf,
                  scanVars, now, result, outcome, exitCode >>

\* a failed test case is run once more
MainReturn_Retry ==
  /\ pc = "main_ret"
  /\ success' = IF result[tc] # "pass" THEN FALSE ELSE success
  /\ IF result[tc] # "pass" /\ success
       THEN tc' = tc /\ pc' = "setup_dirs"
       ELSE IF tc < NumCases
              THEN tc' = tc + 1 /\ pc' = "setup_dirs"
              ELSE tc' = tc /\ pc' = "finish"
  /\ stdinOpen' = FALSE /\ stdoutOpen' = FALSE /\ outbuf' = <<>>
  /\ UNCHANGED << file_size_kb, fsVars, procVars, portVars, emitted, stdinBuf,
                  scanVars, now, result, outcome, exitCode >>

\* lines 119-124: "if not run_test(...): success = False", then the next call;
\* the Popen objects of the finished call are released, which closes the
\* harness's ends of the client's pipes
MainReturn ==
  /\ pc = "main_ret"
  /\ success' = IF result[tc] # "pass" THEN FALSE ELSE success
  /\ IF tc < NumCases
       THEN tc' = tc + 1 /\ pc' = "setup_dirs"
       ELSE tc' = tc /\ pc' = "finish"
  /\ stdinOpen' = FALSE /\ stdoutOpen' = FALSE /\ outbuf' = <<>>
  /\ UNCHANGED << file_size_kb, fsVars, procVars, portVars, emitted, stdinBuf,
                  scanVars, now, result, outcome, exitCode >>

\* lines 126-130: exit(1) unless every test case passed
Finish ==
  /\ pc = "finish"
  /\ exitCode' = IF success THEN 0 ELSE 1
  /\ pc' = "done"
  /\ UNCHANGED << tc, file_size_kb, fsVars, procVars, portVars, pipeVars,
                  scanVars, now, result, outcome, success >>

Next ==
  \/ Tick
  \/ WrapperEmit
  \/ WrapperCloseStdin
  \/ WrapperCloseStdout
  \/ \E i \in Cases, r \in Roles : ProcExit(i, r)
  \/ SetupDirs
  \/ WritePayload
  \/ ReadPubkey
  \/ WriteUsers
  \/ StartEntrypoint
  \/ StartRoom
  \/ StartClient
  \/ LivenessCheck
  \/ SendCommand
  \/ ScanLine
  \/ ScanEmptyRunning
  \/ ScanEnd
  \/ CheckTrigger
  \/ Validate
  \/ Cleanup
  \/ Verdict
  \/ MainReturn
  \/ Finish

Spec == Init /\ [][Next]_vars

\* ------------------------------------------- port derivation on any sizes
\* run_test's port arithmetic applied to two test cases of arbitrary size
PortInit ==
  /\ pc = "ports" /\ tc = 1
  /\ file_size_kb \in [Cases -> 0..MaxSize]
  /\ dirExists = [d \in {} |-> FALSE]
  /\ dirFiles = [d \in {} |-> EmptyTree]
  /\ templateKey = Missing
  /\ InitLocals

DerivePorts(i) ==
  /\ pc = "ports"
  /\ ep_port[i] = 0
  /\ AssignPorts(i)
  /\ UNCHANGED << pc, tc, file_size_kb, fsVars, procVars, pipeVars, scanVars,
                  now, mainVars >>

PortNext == \E i \in Cases : DerivePorts(i)

PortSpec == PortInit /\ [][PortNext]_vars

\* ------------------------------------------- the validator on any file size
\* the last run_test call, of arbitrary file size, at line 97: the scan loop
\* has ended with start_transfer and end_transfer recorded
ProvisionedTree(i, key) ==
  AddFile(AddFile(AddFile(FreshTree, PayloadPath(i), Payload(i)),
                  "users/maurits", key), "users/myroom", key)

VerdictInit ==
  /\ pc = "validate" /\ tc = NumCases
  /\ \E s \in 0..MaxSize : file_size_kb = <<MainSizes[1], s>>
  /\ dirExists = [d \in {file_size_kb[i] : i \in Cases} |->
                    d = file_size_kb[NumCases]]
  /\ dirFiles = [d \in DOMAIN dirExists |->
                   IF dirExists[d] THEN ProvisionedTree(NumCases, <<"k">>)
                                   ELSE EmptyTree]
  /\ templateKey = <<"k">> /\ pubkey = <<"k">>
  /\ proc = <<[r \in Roles |-> "exited"],
              [r \in Roles |-> IF r = "wrapper" THEN "exited" ELSE "running"]>>
  /\ killed = <<[r \in Roles |-> r # "wrapper"], [r \in Roles |-> FALSE]>>
  /\ ep_port = [i \in Cases |-> EpPort(file_size_kb[i])]
  /\ client_port = [i \in Cases |-> ClientPort(file_size_kb[i])]
  /\ stdinOpen = FALSE /\ stdoutOpen = FALSE
  /\ outbuf = <<>> /\ emitted = 1
  /\ stdinBuf = << <<"/get", PayloadPath(NumCases)>> >>
  /\ line = <<>>
  /\ start_transfer \in 0..MaxTime
  /\ end_transfer \in start_transfer..MaxTime
  /\ firstSentinel = start_transfer
  /\ now = end_transfer
  /\ actual_duration = None /\ speed_kb_s = None
  /\ result = <<"pass", "none">> /\ outcome = <<"pass", "none">>
  /\ success = TRUE /\ exitCode = None

VerdictNext == Validate \/ Cleanup \/ Verdict \/ MainReturn \/ Finish

VerdictSpec == VerdictInit /\ [][VerdictNext]_vars

\* ================================================================ claims
Returned(i) == result[i] \in {"pass", "fail"}
AfterCheck  == pc \in {"validate", "cleanup", "verdict", "main_ret",
                       "finish", "done", "crashed"}

\* C1: after run_test has returned for a test case, whatever the outcome,
\* the fixture directory test_env_<size> of that test case does not exist.
C1_FixtureRemoved ==
  \A i \in Cases : Returned(i) => ~dirExists[test_dir(i)]

\* C2: on every path by which run_test returns True or False after the
\* entrypoint and the room were started, kill() has been issued to both.
C2_KillIssued ==
  \A i \in Cases :
     Returned(i) => /\ proc[i]["ep"] # "none" /\ proc[i]["room"] # "none"
                    /\ killed[i]["ep"] /\ killed[i]["room"]

C2_Witness ==
  /\ outcome[1] = "broken_pipe" /\ outcome[2] = "pass"
  /\ \A i \in Cases : killed[i]["ep"] /\ killed[i]["room"]

\* C3: start_transfer is set by the first sentinel line read and never
\* changed afterwards: it is the clock value at which the first one was read.
C3_FirstSentinelKept == start_transfer = firstSentinel

\* C4: a test case that recorded start_transfer ends with True exactly when
\* 5 * elapsed >= 4 * expected_duration and with False otherwise.
C4_VerdictByMargin ==
  (pc \in {"main_ret", "crashed"} /\ start_transfer # None
     /\ end_transfer # None)
  => result[tc] = IF MeetsMargin(end_transfer - start_transfer,
                                 expected_duration(tc))
                    THEN "pass" ELSE "fail"

\* C5: when the scan loop has ended and no sentinel line was ever read,
\* run_test returns False: no elapsed duration is computed, no pass verdict.
C5_NoTriggerFails ==
  (AfterCheck /\ end_transfer # None /\ firstSentinel = None)
  => /\ result[tc] = "fail" /\ outcome[tc] = "no_trigger"
     /\ actual_duration = None

C5_Witness ==
  /\ pc = "main_ret" /\ outcome[tc] = "no_trigger"
  /\ end_transfer >= MarginNum /\ emitted > 0

\* C6: a reported failure of the first test case does not end the run: the
\* second run_test call is made, and the run ends only with its result.
C6_FailureDoesNotAbort ==
  /\ result[1] = "fail" => (tc = 1 /\ pc = "main_ret") \/ tc = 2
  /\ (result[1] = "fail" /\ pc = "done") => Returned(2)

C6_Witness ==
  /\ outcome[1] \in {"early_exit", "broken_pipe", "no_trigger", "rate_fail"}
  /\ tc = 2 /\ pc = "done" /\ result[2] = "pass"

\* C7: when the run completes the exit code is 1 if some test case returned
\* failure and 0 if every test case passed.
C7_ExitCode ==
  pc = "done" =>
    exitCode = IF \E i \in Cases : result[i] = "fail" THEN 1 ELSE 0

C7_Witness ==
  pc = "done" /\ result[1] = "fail" /\ result[2] = "pass" /\ exitCode = 1

\* C8: when run_test returns, each of the three processes it spawned has
\* exited or has been sent a kill by the harness.
C8_NoProcessLeft ==
  \A i \in Cases :
     Returned(i) => \A r \in Roles : proc[i][r] = "exited" \/ killed[i][r]

\* C9: no port is assigned to role processes of two different test cases.
C9_PortsOwned ==
  \A i, j \in Cases :
     (i # j /\ ep_port[i] # 0 /\ ep_port[j] # 0)
     => {ep_port[i], client_port[i]} \cap {ep_port[j], client_port[j]} = {}

\* C10: entrypoint port = 44322 + size mod 100, room port = 44323 + size mod
\* 100; the two ports of a test case differ; two test cases get the same
\* port pair exactly when their sizes agree mod 100.
C10_PortDerivation ==
  /\ \A i \in Cases : ep_port[i] # 0 =>
        /\ ep_port[i] = 44322 + (file_size_kb[i] % 100)
        /\ client_port[i] = 44323 + (file_size_kb[i] % 100)
        /\ ep_port[i] # client_port[i]
  /\ \A i, j \in Cases : (ep_port[i] # 0 /\ ep_port[j] # 0) =>
        ((ep_port[i] = ep_port[j] /\ client_port[i] = client_port[j])
           <=> (file_size_kb[i] % 100 = file_size_kb[j] % 100))

C10_Witness ==
  /\ file_size_kb[1] # file_size_kb[2]
  /\ ep_port[1] # 0 /\ ep_port[1] = ep_port[2]
  /\ client_port[1] = client_port[2]

\* C11: throughput plays no part in the verdict: how a test case that
\* recorded start_transfer ends (return value or exception, kills issued,
\* fixture removed) is a function of elapsed and expected_duration alone,
\* the same for every file size.
C11_VerdictIgnoresSize ==
  (pc \in {"main_ret", "finish", "done", "crashed"}) =>
    LET e == end_transfer - start_transfer IN
      /\ result[tc] = IF e = 0 THEN "raised"
                      ELSE IF 5 * e >= 4 * expected_duration(tc)
                             THEN "pass" ELSE "fail"
      /\ killed[tc]["ep"] = (e # 0)
      /\ killed[tc]["room"] = (e # 0)
      /\ dirExists[test_dir(tc)] = (e = 0)

C11_Witness ==
  /\ pc = "main_ret" /\ result[tc] = "fail"
  /\ file_size_kb[tc] # MainSizes[tc]
  /\ speed_kb_s <= Limits[tc]

\* C12: the scan loop is left only on an empty read with the client exited;
\* an empty read while the client runs keeps the loop going; end_transfer is
\* recorded only on leaving the loop, hence only after the client has exited.
C12_ScanEndsOnExit ==
  [][ /\ (pc = "scan" /\ pc' # "scan") =>
            /\ line' = <<>> /\ outbuf = <<>>
            /\ proc[tc]["wrapper"] = "exited"
            /\ pc' = "check_trigger" /\ end_transfer' = now
      /\ (pc = "scan" /\ line' = <<>> /\ proc[tc]["wrapper"] # "exited") =>
            (pc' = "scan" /\ end_transfer' = None)
      /\ (end_transfer' # end_transfer /\ end_transfer' # None) =>
            (pc = "scan" /\ pc' = "check_trigger"
               /\ proc'[tc]["wrapper"] = "exited")
    ]_vars

C12_Witness ==
  /\ pc = "scan" /\ line = <<>> /\ firstSentinel # None
  /\ outbuf = <<>> /\ ~stdoutOpen /\ proc[tc]["wrapper"] = "running"
  /\ end_transfer = None

\* C13: the scan is entered only after a liveness check that found the
\* client running and a successful write of the command; a client found
\* exited, or a broken pipe, returns False with nothing written and no
\* timestamp recorded.
C13_ScanNeedsLiveClientAndWrite ==
  [][ /\ (pc # "send_cmd" /\ pc' = "send_cmd") =>
            (pc = "liveness" /\ proc[tc]["wrapper"] = "running")
      /\ (pc # "scan" /\ pc' = "scan") =>
            (pc = "send_cmd" /\ stdinOpen /\ Len(stdinBuf') = 1)
      /\ (pc # pc' /\ ((pc = "liveness" /\ proc[tc]["wrapper"] = "exited")
                        \/ (pc = "send_cmd" /\ ~stdinOpen))) =>
            /\ pc' = "main_ret" /\ result'[tc] = "fail"
            /\ stdinBuf' = <<>>
            /\ start_transfer' = None /\ end_transfer' = None
    ]_vars

C13_Witness ==
  /\ pc = "main_ret" /\ outcome[tc] = "broken_pipe"
  /\ stdinBuf = <<>> /\ start_transfer = None /\ emitted > 0

\* C14: a fixture error ends the whole run: no later test case is executed
\* and no role process of the current test case has been started.
C14_FixtureErrorAborts ==
  \A i \in Cases :
     outcome[i] = "fixture_error" =>
       /\ pc = "crashed" /\ tc = i /\ exitCode = 1
       /\ \A j \in Cases : j >= i => \A r \in Roles : proc[j][r] = "none"
       /\ \A j \in Cases : j > i => result[j] = "none"

C14_Witness ==
  /\ outcome[1] = "fixture_error" /\ templateKey = Missing
  /\ pc = "crashed" /\ result[2] = "none"

\* C15: provided no fixture error occurs, when the run has ended every test
\* case has returned a result (the clients having exited), and the run has
\* its exit code.
C15_EveryCaseReturns ==
  (pc \in {"done", "crashed"} /\ \A i \in Cases : outcome[i] # "fixture_error")
  => (exitCode # None /\ \A i \in Cases : Returned(i))

\* C16: the steps of a test case occur in the fixed order fixture,
\* entrypoint, room, client, liveness check, command, scan, duration,
\* cleanup, and a test case begins only after the previous one has returned.
C16_FixedOrder ==
  [][ LET Rank == [ setup_dirs |-> 1, write_payload |-> 2, read_pubkey |-> 3,
                    write_users |-> 4, start_ep |-> 5, start_room |-> 6,
                    start_client |-> 7, liveness |-> 8, send_cmd |-> 9,
                    scan |-> 10, check_trigger |-> 11, validate |-> 12,
                    cleanup |-> 13, verdict |-> 14, main_ret |-> 15,
                    finish |-> 16, done |-> 17, crashed |-> 17 ]
          started(i, r) == proc[i][r] = "none" /\ proc'[i][r] # "none"
          tree == dirFiles[test_dir(tc)]
      IN
      /\ pc' # pc =>
            \/ tc' = tc /\ Rank[pc'] > Rank[pc]
            \/ pc = "main_ret" /\ pc' = "setup_dirs" /\ tc' = tc + 1
      /\ tc' # tc => (pc = "main_ret" /\ Returned(tc))
      /\ \A i \in Cases :
            /\ started(i, "ep") =>
                  /\ i = tc /\ \A j \in 1..(i - 1) : Returned(j)
                  /\ dirExists[test_dir(tc)]
                  /\ {PayloadPath(tc), "users/maurits", "users/myroom"}
                        \subseteq DOMAIN tree
                  /\ proc[i]["room"] = "none" /\ proc[i]["wrapper"] = "none"
            /\ started(i, "room") =>
                  /\ i = tc /\ proc[i]["ep"] # "none"
                  /\ proc[i]["wrapper"] = "none"
            /\ started(i, "wrapper") =>
                  (i = tc /\ proc[i]["room"] # "none" /\ stdinBuf' = <<>>)
      /\ (stdinBuf' # stdinBuf /\ stdinBuf' # <<>>) =>
            (pc = "send_cmd" /\ proc[tc]["wrapper"] # "none"
               /\ start_transfer = None)
      /\ (start_transfer' # start_transfer /\ start_transfer' # None) =>
            (pc = "scan" /\ stdinBuf # <<>> /\ end_transfer = None)
      /\ (end_transfer' # end_transfer /\ end_transfer' # None) =>
            (pc = "scan" /\ actual_duration = None)
      /\ (actual_duration' # actual_duration /\ actual_duration' # None) =>
            /\ end_transfer # None /\ start_transfer # None
            /\ ~killed[tc]["ep"] /\ ~killed[tc]["room"]
            /\ dirExists[test_dir(tc)]
      /\ (dirExists[test_dir(tc)] /\ ~dirExists'[test_dir(tc)]
             /\ pc # "setup_dirs") =>
            (actual_duration # None /\ result[tc] = "none")
    ]_vars

C16_Witness ==
  /\ tc = 2 /\ pc = "verdict" /\ result[1] = "pass"
  /\ ~dirExists[test_dir(1)] /\ ~dirExists[test_dir(2)]
  /\ actual_duration # None

\* C17: nothing is retried: a role process is spawned at most once in a test
\* case, the command line is written at most once, and a test case that has
\* ended is never run again.
C17_NoRetry ==
  [][ /\ \A i \in Cases, r \in Roles :
            proc[i][r] # "none" => proc'[i][r] \in {proc[i][r], "exited"}
      /\ stdinBuf' # stdinBuf =>
            \/ stdinBuf' = <<>> /\ proc[tc]["wrapper"] = "none"
            \/ stdinBuf = <<>> /\ Len(stdinBuf') = 1
      /\ \A i \in Cases : result[i] # "none" => result'[i] = result[i]
      /\ tc' >= tc
      /\ (pc # "setup_dirs" /\ pc' = "setup_dirs") =>
            (result[tc'] = "none" /\ \A r \in Roles : proc[tc'][r] = "none")
    ]_vars

C17_Witness ==
  /\ pc = "done" /\ outcome[1] = "no_trigger" /\ outcome[2] = "rate_fail"
  /\ Len(stdinBuf) = 1

\* C18: when the entrypoint is started the fixture directory holds exactly
\* the payload of file_size_kb * 1024 bytes under room_files and the two
\* identity files under users, with identical content, and nothing left
\* over from an earlier test case of the same name.
C18_FreshFixture ==
  pc = "start_ep" =>
    LET tree == dirFiles[test_dir(tc)] IN
      /\ dirExists[test_dir(tc)]
      /\ DOMAIN tree = {"room_files", "users", "room_files/test_<size>.bin",
                        "users/maurits", "users/myroom"}
      /\ tree["room_files/test_<size>.bin"] = <<"bytes", file_size_kb[tc] * 1024>>
      /\ tree["users/maurits"] = tree["users/myroom"]
      /\ tree["users/maurits"] # <<"old">>

C18_Witness ==
  /\ pc = "start_ep" /\ tc = 2 /\ outcome[1] = "no_trigger"
  /\ dirExists[test_dir(1)] /\ dirExists[test_dir(2)]
  /\ "host_key" \notin DOMAIN dirFiles[test_dir(2)]
  /\ templateKey = <<"k", "nl">>

\* C19: in a test case that recorded start_transfer the harness issues no
\* kill to the entrypoint or the room before end_transfer is recorded.
C19_NoKillBeforeEnd ==
  \A r \in {"ep", "room"} :
     (killed[tc][r] /\ firstSentinel # None) => end_transfer # None

C19_Witness ==
  /\ killed[tc]["ep"] /\ killed[tc]["room"]
  /\ firstSentinel # None /\ end_transfer # None
  /\ proc[tc]["ep"] = "running"

\* C20: whenever elapsed is computed, start_transfer was recorded after the
\* command line had been written and is not later than end_transfer, so
\* elapsed is never negative.
C20_ElapsedNonNegative ==
  [][ /\ (start_transfer' # start_transfer /\ start_transfer' # None) =>
            (pc = "scan" /\ Len(stdinBuf) = 1)
      /\ actual_duration' # None =>
            /\ start_transfer' # None /\ end_transfer' # None
            /\ start_transfer' <= end_transfer'
            /\ actual_duration' = end_transfer' - start_transfer'
            /\ actual_duration' >= 0
            /\ Len(stdinBuf') = 1
    ]_vars

C20_Witness ==
  /\ pc = "cleanup" /\ actual_duration > 0
  /\ actual_duration = end_transfer - start_transfer
  /\ Len(stdinBuf) = 1

====
